---- MODULE Spec2Model ----
(***************************************************************************)
(* Interval trees of ruslashev/gamedump, src/misc:                         *)
(*   diet3.c         Discrete Interval Encoding Tree on an AVL tree        *)
(*   avl_tree_ref.c  interval AVL tree with subtree-max augmentation       *)
(*   diet.c          unbalanced Discrete Interval Encoding Tree            *)
(* Each program keeps its nodes in an arena nodes[0..len-1] addressed by   *)
(* i16 handles, with T (INT16_MAX) as the "no node" handle.                *)
(***************************************************************************)
EXTENDS Integers, Sequences, FiniteSets, TLC

\* ------------------------------------------------------------------ shared
T == 32767

max(a, b) == IF a > b THEN a ELSE b

min(a, b) == IF a < b THEN a ELSE b

\* nodes[n] := rec on an arena held as a function over 0..k-1 (records past
\* len are stale ones; the arena grows when n is a new index).
Store(arena, n, rec) ==
    [i \in (DOMAIN arena) \cup {n} |-> IF i = n THEN rec ELSE arena[i]]

\* ------------------------------------------------------------------ diet3.c
D3_TEST_MAX_VAL == 30

D3_MASK_LEN == D3_TEST_MAX_VAL + 1

D3_N == 1000

bal_const == 1

\* Bounds of the diet3.c model. A run starts from the empty tree and makes at
\* most DietMaxInserts calls insert(start, end) with 1 <= start <= end <= DietMaxVal,
\* or starts from a tree of DietSeedPoints isolated points (see DietSeeds).
DietMaxVal == 5

DietMaxInserts == 3

DietSeedPoints == 7

\* Number of resets the driver makes in a run
MaxClears == 1

\* A call of join on its own is given two trees of at most JoinMaxNodes nodes
\* together
JoinMaxNodes == 13

VARIABLES
    prog,          \* which of the three programs this run is
    d3_nodes,      \* diet3.c: struct node nodes[N], the records written so far
    d3_len,        \* diet3.c: i16 len
    d3_root,       \* diet3.c: i16 root
    d3_mask,       \* diet3.c: uint8_t mask[MASK_LEN], written by blit
    d3_test_mask,  \* diet3.c: uint8_t test_mask[MASK_LEN], written by insert_test_mask
    d3_order,      \* the build's evaluation order of two calls that are arguments of one call
    d3_failed,     \* "none", or the assertion (or err) that ended the program
    d3_seed,       \* the driver's script: points it has still to insert
    d3_dom,        \* the driver draws coordinates from 1..d3_dom
    d3_left,       \* number of unscripted insert calls the driver may still make
    d3_hist,       \* history of the last insert (see D3NoHist)
    d3_call,       \* a call of join on its own: its arguments and, once made, its result
    avl_nodes,     \* avl_tree_ref.c: struct node nodes[N], the records written so far
    avl_len,       \* avl_tree_ref.c: i16 len
    avl_root,      \* avl_tree_ref.c: i16 root
    avl_seed,      \* the driver's script: intervals it has still to insert
    avl_dom,       \* the driver draws coordinates from 1..avl_dom
    avl_left,      \* number of unscripted insert calls the driver may still make
    avl_cases,     \* history: the rotation cases balance applied in the last insert
    avl_inserted,  \* history: the intervals passed to insert since the last reset, in order
    avl_failed,    \* "none", or "crashed" once a write past the arena has ended the program
    dt_nodes,      \* diet.c: struct node nodes[N], the records written so far
    dt_len,        \* diet.c: i16 len
    dt_root,       \* diet.c: i16 root
    dt_mask,       \* diet.c: uint8_t mask[MASK_LEN]
    dt_test_mask,  \* diet.c: uint8_t test_mask[MASK_LEN]
    dt_failed,     \* "none", or the assertion that ended the program
    dt_seed,       \* the driver's script: points it has still to insert
    dt_dom,        \* the driver draws coordinates from 1..dt_dom
    dt_left,       \* number of unscripted insert calls the driver may still make
    dt_hist,       \* history of the last insert (see DtNoHist)
    fresh          \* where followed (on): the number of resets made, and the same
                   \* program started from its static initialisers and given
                   \* the inserts made since the last reset

d3vars == <<d3_nodes, d3_len, d3_root, d3_mask, d3_test_mask, d3_order,
            d3_failed, d3_seed, d3_dom, d3_left, d3_hist, d3_call>>

avlvars == <<avl_nodes, avl_len, avl_root, avl_seed, avl_dom, avl_left, avl_cases,
             avl_inserted, avl_failed>>

dtvars == <<dt_nodes, dt_len, dt_root, dt_mask, dt_test_mask, dt_failed,
            dt_seed, dt_dom, dt_left, dt_hist>>

vars == <<prog, d3vars, avlvars, dtvars, fresh>>

\* The state an insert threads through its calls: the arena, len, the mask
\* blit writes, what stopped the program ("none" while it runs) and, as
\* history, the blit calls made and whether join met two trees whose heights
\* differ by more than bal_const.
d3_height(nodes, tree) == IF tree = T THEN 0 ELSE nodes[tree].height

\* height_join that looks at the left tree only
d3_height_join_left(nodes, left, right) == 1 + d3_height(nodes, left)

d3_height_join(nodes, left, right) ==
    1 + max(d3_height(nodes, left), d3_height(nodes, right))

\* new_node without its assertion
d3_new_node_unchecked(st, start, end, h, left, right) ==
    IF st.fail # "none" THEN [st |-> st, ret |-> T]
    ELSE [st |-> [st EXCEPT !.len = st.len + 1,
                            !.nodes = Store(st.nodes, st.len,
                                [start |-> start, end |-> end, height |-> h,
                                 left |-> left, right |-> right])],
          ret |-> st.len]

d3_new_node(st, start, end, h, left, right) ==
    IF st.fail # "none" THEN [st |-> st, ret |-> T]
    ELSE IF ~(st.len < D3_N)
    THEN [st |-> [st EXCEPT !.fail = "assert n < N"], ret |-> T]
    ELSE [st |-> [st EXCEPT !.len = st.len + 1,
                            !.nodes = Store(st.nodes, st.len,
                                [start |-> start, end |-> end, height |-> h,
                                 left |-> left, right |-> right])],
          ret |-> st.len]

\* create that takes l for the right child and r for the left
d3_create_swapped(st, start, end, l, r) ==
    d3_new_node(st, start, end, d3_height_join(st.nodes, l, r), r, l)

d3_create(st, start, end, l, r) ==
    d3_new_node(st, start, end, d3_height_join(st.nodes, l, r), l, r)

\* A call that returns a handle is a record [st, ret]: the state it leaves
\* and the handle. The operators below with a first parameter c, a, j, f or
\* new continue from such a call: they are the rest of the C expression or
\* statement the call stands in.

\* create(start, end, l, <c>) and create(start, end, <c>, r)
d3_create_r(c, start, end, l) == d3_create(c.st, start, end, l, c.ret)

d3_create_l(c, start, end, r) == d3_create(c.st, start, end, c.ret, r)

\* create(x[1], x[2], x[3], x[4])
d3_create_x(st, x) == d3_create(st, x[1], x[2], x[3], x[4])

\* create(a, b, <c1>, <c2>) where c1 ran first, and where c2 ran first
d3_create_12(c1, c2, a, b) == d3_create(c2.st, a, b, c1.ret, c2.ret)

d3_create_21(c1, c2, a, b) == d3_create(c1.st, a, b, c1.ret, c2.ret)

d3_create2_ltr(c1, a, b, x2) == d3_create_12(c1, d3_create_x(c1.st, x2), a, b)

d3_create2_rtl(c2, a, b, x1) == d3_create_21(d3_create_x(c2.st, x1), c2, a, b)

\* create(a, b, create(x1..), create(x2..)): C leaves the order of the two
\* inner calls to the build; the outer call comes last.
d3_create2(st, order, a, b, x1, x2) ==
    IF order = "ltr"
    THEN d3_create2_ltr(d3_create_x(st, x1), a, b, x2)
    ELSE d3_create2_rtl(d3_create_x(st, x2), a, b, x1)

\* err(0, "Node.balance"): the program exits
d3_err(st) == [st |-> [st EXCEPT !.fail = "Node.balance"], ret |-> T]

\* balance, hl > hr + bal_const
d3_balance_l(st, order, start, end, l, r) ==
    LET nodes == st.nodes
        ls == nodes[l].start
        le == nodes[l].end
        ll == nodes[l].left
        lr == nodes[l].right
    IN  IF l = T THEN d3_err(st)
        ELSE IF d3_height(nodes, ll) >= d3_height(nodes, lr)
        THEN d3_create_r(d3_create(st, start, end, lr, r), ls, le, ll)
        ELSE IF lr = T THEN d3_err(st)
        ELSE d3_create2(st, order, nodes[lr].start, nodes[lr].end,
                        <<ls, le, ll, nodes[lr].left>>,
                        <<start, end, nodes[lr].right, r>>)

\* balance, hr > hl + bal_const
d3_balance_r(st, order, start, end, l, r) ==
    LET nodes == st.nodes
        rs == nodes[r].start
        re == nodes[r].end
        rl == nodes[r].left
        rr == nodes[r].right
    IN  IF r = T THEN d3_err(st)
        ELSE IF d3_height(nodes, rr) >= d3_height(nodes, rl)
        THEN d3_create_l(d3_create(st, start, end, l, rl), rs, re, rr)
        ELSE IF rl = T THEN d3_err(st)
        ELSE d3_create2(st, order, nodes[rl].start, nodes[rl].end,
                        <<start, end, l, nodes[rl].left>>,
                        <<rs, re, nodes[rl].right, rr>>)

\* balance that never rotates
d3_balance_none(st, order, start, end, l, r) == d3_create(st, start, end, l, r)

d3_balance(st, order, start, end, l, r) ==
    LET hl == d3_height(st.nodes, l)
        hr == d3_height(st.nodes, r)
    IN  IF st.fail # "none" THEN [st |-> st, ret |-> T]
        ELSE IF hl > hr + bal_const THEN d3_balance_l(st, order, start, end, l, r)
        ELSE IF hr > hl + bal_const THEN d3_balance_r(st, order, start, end, l, r)
        ELSE d3_new_node(st, start, end, IF hl >= hr THEN hl + 1 ELSE hr + 1, l, r)

\* balance(start, end, <a>, r) and balance(start, end, l, <a>)
d3_balance_with_l(a, order, start, end, r) ==
    d3_balance(a.st, order, start, end, a.ret, r)

\* balance(start, end, l, <a>) replaced by create
d3_create_for_balance_r(a, order, start, end, l) == d3_create(a.st, start, end, l, a.ret)

d3_balance_with_r(a, order, start, end, l) ==
    d3_balance(a.st, order, start, end, l, a.ret)

RECURSIVE d3_add(_, _, _, _, _, _)
d3_add(st, order, tree, left, start, end) ==
    IF st.fail # "none" THEN [st |-> st, ret |-> T]
    ELSE IF tree = T THEN d3_new_node(st, start, end, 1, T, T)
    ELSE LET s == st.nodes[tree].start
             e == st.nodes[tree].end
             l == st.nodes[tree].left
             r == st.nodes[tree].right
         IN  IF left
             THEN d3_balance_with_l(d3_add(st, order, l, left, start, end), order, s, e, r)
             ELSE d3_balance_with_r(d3_add(st, order, r, left, start, end), order, s, e, l)

\* join met two trees whose heights differ by more than bal_const (history)
d3_deep(st) == [st EXCEPT !.deep = TRUE]

RECURSIVE d3_join(_, _, _, _, _, _)
d3_join(st, order, start, end, l, r) ==
    IF st.fail # "none" THEN [st |-> st, ret |-> T]
    ELSE IF l = T THEN d3_add(st, order, r, TRUE, start, end)
    ELSE IF r = T THEN d3_add(st, order, l, FALSE, start, end)
    ELSE LET nl == st.nodes[l]
             nr == st.nodes[r]
         IN  IF nl.height > nr.height + bal_const
             THEN d3_balance_with_r(d3_join(d3_deep(st), order, start, end, nl.right, r),
                                    order, nl.start, nl.end, nl.left)
             ELSE IF nr.height > nl.height + bal_const
             THEN d3_balance_with_l(d3_join(d3_deep(st), order, start, end, l, nr.left),
                                    order, nr.start, nr.end, nr.right)
             ELSE d3_create(st, start, end, l, r)

\* blit that leaves out the first integer of its range
d3_blit_short(st, start, end) ==
    IF st.fail # "none" THEN st
    ELSE [st EXCEPT !.mask = [i \in DOMAIN st.mask |->
                                 IF start < i /\ i <= end THEN 2 ELSE st.mask[i]],
                    !.trace = Append(st.trace, <<start + 1, end>>)]

\* blit(start, end): mask[i] = 2 for start <= i <= end
d3_blit(st, start, end) ==
    IF st.fail # "none" THEN st
    ELSE [st EXCEPT !.mask = [i \in DOMAIN st.mask |->
                                 IF start <= i /\ i <= end THEN 2 ELSE st.mask[i]],
                    !.trace = Append(st.trace, <<start, end>>)]

\* find_del_left and find_del_right return through two out parameters:
\* ret = <<*outs, *outl>> and ret = <<*oute, *outr>>.
d3_out(j, x) == [st |-> j.st, ret |-> <<x, j.ret>>]

\* *outs = news; *outl = join(s, e, l, newr) after find_del_left(r, ..) = <f>
d3_fdl_join(f, order, s, e, l) ==
    d3_out(d3_join(f.st, order, s, e, l, f.ret[2]), f.ret[1])

RECURSIVE d3_find_del_left(_, _, _, _, _)
d3_find_del_left(st, order, tree, start, def_blit_end) ==
    IF st.fail # "none" THEN [st |-> st, ret |-> <<start, T>>]
    ELSE IF tree = T
    THEN [st |-> d3_blit(st, start, def_blit_end), ret |-> <<start, T>>]
    ELSE LET s == st.nodes[tree].start
             e == st.nodes[tree].end
             l == st.nodes[tree].left
             r == st.nodes[tree].right
         IN  IF start > e + 1
             THEN d3_fdl_join(d3_find_del_left(st, order, r, start, def_blit_end),
                              order, s, e, l)
             ELSE IF start < s
             THEN d3_find_del_left(st, order, l, start, def_blit_end)
             ELSE [st |-> d3_blit(st, e + 1, def_blit_end), ret |-> <<s, l>>]

\* *oute = newe; *outr = join(s, e, newl, r) after find_del_right(l, ..) = <f>
d3_fdr_join(f, order, s, e, r) ==
    d3_out(d3_join(f.st, order, s, e, f.ret[2], r), f.ret[1])

RECURSIVE d3_find_del_right(_, _, _, _, _)
d3_find_del_right(st, order, tree, end, def_blit_start) ==
    IF st.fail # "none" THEN [st |-> st, ret |-> <<end, T>>]
    ELSE IF tree = T
    THEN [st |-> d3_blit(st, def_blit_start, end), ret |-> <<end, T>>]
    ELSE LET s == st.nodes[tree].start
             e == st.nodes[tree].end
             l == st.nodes[tree].left
             r == st.nodes[tree].right
         IN  IF end < s - 1
             THEN d3_fdr_join(d3_find_del_right(st, order, l, end, def_blit_start),
                              order, s, e, r)
             ELSE IF end > e
             THEN d3_find_del_right(st, order, r, end, def_blit_start)
             ELSE [st |-> d3_blit(st, def_blit_start, s - 1), ret |-> <<e, r>>]

\* join(s, e, <new>, r) and join(s, e, l, <new>)
d3_join_with_l(new, order, s, e, r) == d3_join(new.st, order, s, e, new.ret, r)

\* join(s, e, l, <new>) in the mutating style: the recorded height of l is
\* raised in place
d3_join_with_r_in_place(new, order, s, e, l) ==
    IF l = T THEN d3_join(new.st, order, s, e, l, new.ret)
    ELSE d3_join([new.st EXCEPT !.nodes[l].height = @ + 1], order, s, e, l, new.ret)

d3_join_with_r(new, order, s, e, l) == d3_join(new.st, order, s, e, l, new.ret)

\* insert_range that calls find_del_left also for a range starting at s
d3_meet_left_strict(st, order, start, s, l) ==
    IF start > s
    THEN [st |-> st, ret |-> <<s, l>>]
    ELSE d3_find_del_left(st, order, l, start, s - 1)

\* insert_range that, for a range starting before s, takes start for news and
\* keeps the left subtree as it is
d3_meet_left_keep(st, order, start, s, l) ==
    IF start >= s
    THEN [st |-> st, ret |-> <<s, l>>]
    ELSE [st |-> d3_blit(st, start, s - 1), ret |-> <<start, l>>]

\* insert_range where the range meets [s, e]: the left side, news and newl
d3_meet_left(st, order, start, s, l) ==
    IF start >= s
    THEN [st |-> st, ret |-> <<s, l>>]
    ELSE d3_find_del_left(st, order, l, start, s - 1)

\* insert_range that, for a range ending inside [s, e], keeps end for e
d3_meet_right_cut(fl, order, end, e, r) ==
    IF end <= e
    THEN [st |-> fl.st, ret |-> <<end, r>>]
    ELSE d3_find_del_right(fl.st, order, r, end, e + 1)

\* insert_range whose def_blit_start is e
d3_meet_right_wide(fl, order, end, e, r) ==
    IF end <= e
    THEN [st |-> fl.st, ret |-> <<e, r>>]
    ELSE d3_find_del_right(fl.st, order, r, end, e)

\* ... then the right side, newe and newr
d3_meet_right(fl, order, end, e, r) ==
    IF end <= e
    THEN [st |-> fl.st, ret |-> <<e, r>>]
    ELSE d3_find_del_right(fl.st, order, r, end, e + 1)

\* ... then return join(news, newe, newl, newr)
d3_meet_join(fl, fr, order) ==
    d3_join(fr.st, order, fl.ret[1], fr.ret[1], fl.ret[2], fr.ret[2])

d3_meet_rest(fl, order, end, e, r) ==
    d3_meet_join(fl, d3_meet_right(fl, order, end, e, r), order)

RECURSIVE d3_insert_range(_, _, _, _, _)
d3_insert_range(st, order, tree, start, end) ==
    IF st.fail # "none" THEN [st |-> st, ret |-> T]
    ELSE IF tree = T
    THEN d3_new_node(d3_blit(st, start, end), start, end, 1, T, T)
    ELSE LET s == st.nodes[tree].start
             e == st.nodes[tree].end
             l == st.nodes[tree].left
             r == st.nodes[tree].right
         IN  IF end < s - 1
             THEN d3_join_with_l(d3_insert_range(st, order, l, start, end), order, s, e, r)
             ELSE IF start > e + 1
             THEN d3_join_with_r(d3_insert_range(st, order, r, start, end), order, s, e, l)
             ELSE d3_meet_rest(d3_meet_left(st, order, start, s, l), order, end, e, r)

\* ---- the verifiers of diet3.c, run by debug_insert after every insert
RECURSIVE d3_gather_indices(_, _)
d3_gather_indices(nodes, x) ==
    <<x>> \o (IF nodes[x].left # T THEN d3_gather_indices(nodes, nodes[x].left) ELSE <<>>)
          \o (IF nodes[x].right # T THEN d3_gather_indices(nodes, nodes[x].right) ELSE <<>>)

RECURSIVE d3_check_inequality(_, _)
d3_check_inequality(nodes, x) ==
    LET l == nodes[x].left
        r == nodes[x].right
    IN  /\ l # T =>
             /\ LET values == d3_gather_indices(nodes, l)
                IN  \A i \in 1..Len(values) : nodes[values[i]].start <= nodes[x].start
             /\ d3_check_inequality(nodes, l)
        /\ r # T =>
             /\ LET values == d3_gather_indices(nodes, r)
                IN  \A i \in 1..Len(values) : nodes[values[i]].start >= nodes[x].start
             /\ d3_check_inequality(nodes, r)

d3_overlapping_or_adjacent(nodes, x, y) ==
    LET x0 == nodes[x].start
        x1 == nodes[x].end
        y0 == nodes[y].start
        y1 == nodes[y].end
    IN  (x0 <= y1 + 1) /\ (y0 <= x1 + 1)

d3_check_isolation(nodes, root) ==
    LET values == d3_gather_indices(nodes, root)
    IN  \A x \in 1..Len(values) : \A y \in (x + 1)..Len(values) :
            ~d3_overlapping_or_adjacent(nodes, values[x], values[y])

RECURSIVE d3_calc_height(_, _)
d3_calc_height(nodes, x) ==
    IF x = T THEN 0
    ELSE 1 + max(d3_calc_height(nodes, nodes[x].left),
                 d3_calc_height(nodes, nodes[x].right))

RECURSIVE d3_check_height(_, _)
d3_check_height(nodes, x) ==
    /\ d3_calc_height(nodes, x) = nodes[x].height
    /\ nodes[x].left # T => d3_check_height(nodes, nodes[x].left)
    /\ nodes[x].right # T => d3_check_height(nodes, nodes[x].right)

d3_check_masks(mask, test_mask) ==
    \A i \in 0..(D3_MASK_LEN - 1) : mask[i] = test_mask[i]

\* run_checks: the first assertion that fails, "none" when all pass
d3_run_checks(nodes, root, mask, test_mask) ==
    IF ~d3_check_inequality(nodes, root) THEN "check_inequality"
    ELSE IF ~d3_check_isolation(nodes, root) THEN "check_isolation"
    ELSE IF ~d3_check_height(nodes, root) THEN "check_height"
    ELSE IF ~d3_check_masks(mask, test_mask) THEN "check_masks"
    ELSE "none"

d3_insert_test_mask(test_mask, start, end) ==
    [i \in DOMAIN test_mask |->
        IF start <= i /\ i <= end /\ test_mask[i] = 0 THEN 2 ELSE test_mask[i]]

d3_freeze_masks(m) == [i \in DOMAIN m |-> IF m[i] = 2 THEN 1 ELSE m[i]]

\* The integers stored in the tree under x
RECURSIVE D3Stored(_, _)
D3Stored(nodes, x) ==
    IF x = T THEN {}
    ELSE (nodes[x].start .. nodes[x].end)
         \cup D3Stored(nodes, nodes[x].left) \cup D3Stored(nodes, nodes[x].right)

\* The intervals stored in the tree under x, as <<start, end>> pairs
RECURSIVE D3Intervals(_, _)
D3Intervals(nodes, x) ==
    IF x = T THEN {}
    ELSE {<<nodes[x].start, nodes[x].end>>}
         \cup D3Intervals(nodes, nodes[x].left) \cup D3Intervals(nodes, nodes[x].right)

\* The handles reachable from x
RECURSIVE D3Reach(_, _)
D3Reach(nodes, x) ==
    IF x = T THEN {}
    ELSE {x} \cup D3Reach(nodes, nodes[x].left) \cup D3Reach(nodes, nodes[x].right)

\* History kept beside the program state: the arguments of the last insert,
\* its blit calls, the intervals stored before it, whether it returned,
\* whether its joins met heights more than bal_const apart, and the union of
\* all ranges whose insert returned.
D3NoHist ==
    [arg |-> <<1, 0>>, trace |-> <<>>, before |-> {}, returned |-> FALSE,
     deep |-> FALSE, inserted |-> {}]

\* The program after its static initialisers (len = 0, root = T, zeroed masks)
D3Empty(order) ==
    [nodes |-> [i \in {} |-> 0], len |-> 0, root |-> T,
     mask |-> [i \in 0..(D3_MASK_LEN - 1) |-> 0],
     test_mask |-> [i \in 0..(D3_MASK_LEN - 1) |-> 0],
     order |-> order, failed |-> "none", hist |-> D3NoHist]

\* History of an insert that made the call <r> of insert_range
d3_history(S, r, start, end) ==
    [arg |-> <<start, end>>, trace |-> r.st.trace,
     before |-> D3Intervals(S.nodes, S.root),
     returned |-> r.st.fail = "none", deep |-> r.st.deep,
     inserted |-> IF r.st.fail = "none"
                  THEN S.hist.inserted \cup (start..end)
                  ELSE S.hist.inserted]

\* debug_insert after root = <r>: insert_test_mask has made test_mask tm and
\* run_checks has ended with chk; freeze_masks runs if no assertion failed.
d3_after_checks(S, r, tm, chk) ==
    IF chk # "none"
    THEN [S EXCEPT !.root = r.ret, !.failed = chk,
                   !.mask = r.st.mask, !.test_mask = tm]
    ELSE [S EXCEPT !.root = r.ret,
                   !.mask = d3_freeze_masks(r.st.mask),
                   !.test_mask = d3_freeze_masks(tm)]

d3_debug_insert(S, r, tm) ==
    d3_after_checks(S, r, tm, d3_run_checks(r.st.nodes, r.ret, r.st.mask, tm))

\* insert after its call <r> of insert_range: the program has ended there,
\* or root = <r> and debug_insert(start, end) runs
d3_insert_rest(S, r, start, end) ==
    IF r.st.fail # "none"
    THEN [S EXCEPT !.nodes = r.st.nodes, !.len = r.st.len,
                   !.failed = r.st.fail, !.mask = r.st.mask]
    ELSE d3_debug_insert([S EXCEPT !.nodes = r.st.nodes, !.len = r.st.len], r,
                         d3_insert_test_mask(S.test_mask, start, end))

d3_with_history(S2, hist) == [S2 EXCEPT !.hist = hist]

d3_insert_call(S, r, start, end) ==
    d3_with_history(d3_insert_rest(S, r, start, end), d3_history(S, r, start, end))

\* insert(start, end): root = insert_range(root, start, end), then debug_insert
\* (insert_test_mask, run_checks, freeze_masks). A failed assertion, or err(),
\* ends the program where it stands.
d3_insert(S, start, end) ==
    d3_insert_call(S,
        d3_insert_range([nodes |-> S.nodes, len |-> S.len, mask |-> S.mask,
                         trace |-> <<>>, fail |-> "none", deep |-> FALSE],
                        S.order, S.root, start, end),
        start, end)

\* Seed scripts: the DietSeedPoints isolated points 1, 3, 5, ... in the orders
\* i |-> a*i + b (mod DietSeedPoints); the driver inserts them one by one
DietSeeds ==
    { [i \in 1..DietSeedPoints |-> 2 * ((a * (i - 1) + b) % DietSeedPoints) + 1] :
        a \in 1..(DietSeedPoints - 1), b \in 0..(DietSeedPoints - 1) }

D3State ==
    [nodes |-> d3_nodes, len |-> d3_len, root |-> d3_root, mask |-> d3_mask,
     test_mask |-> d3_test_mask, order |-> d3_order, failed |-> d3_failed,
     hist |-> d3_hist]

D3Is(S) ==
    /\ d3_nodes = S.nodes
    /\ d3_len = S.len
    /\ d3_root = S.root
    /\ d3_mask = S.mask
    /\ d3_test_mask = S.test_mask
    /\ d3_order = S.order
    /\ d3_failed = S.failed
    /\ d3_hist = S.hist

\* No call of join on its own
D3NoCall == [l |-> T, r |-> T, start |-> 1, end |-> 0, done |-> FALSE, ret |-> T]

D3Start(order, seed, dom, left) ==
    /\ D3Is(D3Empty(order))
    /\ d3_seed = seed
    /\ d3_dom = dom
    /\ d3_left = left
    /\ d3_call = D3NoCall

\* Either the empty tree with DietMaxInserts inserts to come over 1..DietMaxVal, or
\* a seed script followed by one insert over the seeds' coordinates.
D3Init ==
    \E order \in {"ltr", "rtl"} :
        \/ D3Start(order, <<>>, DietMaxVal, DietMaxInserts)
        \/ \E seed \in DietSeeds : D3Start(order, seed, 2 * DietSeedPoints - 1, 1)

\* ------------------------------------------------------------ avl_tree_ref.c
AVL_MIN == -32768

AVL_N == 1000

\* Bounds of the avl_tree_ref.c model. A run starts from the empty tree and
\* makes at most AvlMaxInserts calls insert(low, high) with
\* 1 <= low <= high <= AvlMaxVal, or runs a seed script of AvlSeedLen inserts
\* (see AvlSeeds) and then makes one more call.
AvlMaxVal == 3

AvlMaxInserts == 4

AvlSeedLen == 6

\* The state a call threads through: the arena and root (len changes in
\* insert alone) and, as history, the rotation cases balance has applied.
avl_init_node(st, i, low, high) ==
    [st EXCEPT !.nodes = Store(st.nodes, i,
        [low |-> low, high |-> high, max |-> high, left |-> T, right |-> T,
         parent |-> T, height |-> 1])]

avl_height(nodes, x) == IF x = T THEN 0 ELSE nodes[x].height

avl_diff(nodes, x) == avl_height(nodes, nodes[x].right) - avl_height(nodes, nodes[x].left)

\* update_height that looks at the left child only
avl_update_height_left(st, x) ==
    [st EXCEPT !.nodes[x].height = 1 + avl_height(st.nodes, st.nodes[x].left)]

avl_update_height(st, x) ==
    [st EXCEPT !.nodes[x].height =
        1 + max(avl_height(st.nodes, st.nodes[x].left),
                avl_height(st.nodes, st.nodes[x].right))]

\* update_max that leaves out the right child
avl_update_max_left(st, x) ==
    LET lm == IF st.nodes[x].left = T THEN AVL_MIN ELSE st.nodes[st.nodes[x].left].max
    IN  [st EXCEPT !.nodes[x].max = max(st.nodes[x].high, lm)]

avl_update_max(st, x) ==
    LET lm == IF st.nodes[x].left = T THEN AVL_MIN ELSE st.nodes[st.nodes[x].left].max
        rm == IF st.nodes[x].right = T THEN AVL_MIN ELSE st.nodes[st.nodes[x].right].max
    IN  [st EXCEPT !.nodes[x].max = max(st.nodes[x].high, max(lm, rm))]

\* right_rotate(x) with y = nodes[x].left, statement by statement
\* right_rotate that empties nodes[x].left
avl_rr_child_drop(st, x, y) ==
    [st EXCEPT !.nodes[x].left = T]

avl_rr_child(st, x, y) ==
    [st EXCEPT !.nodes[x].left = st.nodes[y].right]

\* right_rotate that leaves the parent of the moved grandchild as it was
avl_rr_grandchild_skip(st, x, y) == st

avl_rr_grandchild(st, x, y) ==
    IF st.nodes[y].right # T
    THEN [st EXCEPT !.nodes[st.nodes[y].right].parent = x]
    ELSE st

\* nodes[y].parent = nodes[x].parent, and the parent's (or root's) link to y
avl_relink(st, x, y) ==
    LET p == st.nodes[x].parent
        st1 == [st EXCEPT !.nodes[y].parent = p]
    IN  IF p = T THEN [st1 EXCEPT !.root = y]
        ELSE IF x = st1.nodes[p].left THEN [st1 EXCEPT !.nodes[p].left = y]
        ELSE [st1 EXCEPT !.nodes[p].right = y]

avl_rr_swap(st, x, y) ==
    [st EXCEPT !.nodes[y].right = x, !.nodes[x].parent = y]

\* The end of a rotation without update_max(x); update_max(y)
avl_rotate_end_stale(st, x, y) ==
    [st |-> avl_update_height(avl_update_height(st, x), y), ret |-> y]

\* update_height(x); update_height(y); update_max(x); update_max(y); return y
avl_rotate_end(st, x, y) ==
    [st |-> avl_update_max(avl_update_max(
                avl_update_height(avl_update_height(st, x), y), x), y),
     ret |-> y]

avl_right_rotate_xy(st, x, y) ==
    avl_rotate_end(
        avl_rr_swap(avl_relink(avl_rr_grandchild(avl_rr_child(st, x, y), x, y), x, y), x, y),
        x, y)

avl_right_rotate(st, x) == avl_right_rotate_xy(st, x, st.nodes[x].left)

\* left_rotate(x) with y = nodes[x].right
avl_lr_child(st, x, y) ==
    [st EXCEPT !.nodes[x].right = st.nodes[y].left]

avl_lr_grandchild(st, x, y) ==
    IF st.nodes[y].left # T
    THEN [st EXCEPT !.nodes[st.nodes[y].left].parent = x]
    ELSE st

avl_lr_swap(st, x, y) ==
    [st EXCEPT !.nodes[y].left = x, !.nodes[x].parent = y]

avl_left_rotate_xy(st, x, y) ==
    avl_rotate_end(
        avl_lr_swap(avl_relink(avl_lr_grandchild(avl_lr_child(st, x, y), x, y), x, y), x, y),
        x, y)

avl_left_rotate(st, x) == avl_left_rotate_xy(st, x, st.nodes[x].right)

\* nodes[x].right = <c> and nodes[x].left = <c>, the rotation's return value
avl_set_right(c, x) == [c.st EXCEPT !.nodes[x].right = c.ret]

avl_set_left(c, x) == [c.st EXCEPT !.nodes[x].left = c.ret]

\* balance that never rotates
avl_balance_none(st, x) ==
    [st |-> avl_update_max(avl_update_height(st, x), x), ret |-> x]

\* History: balance(x) rotates by case <name>; "below root" when x has a parent
avl_case_at(st, x, name) ==
    [st EXCEPT !.cases = @ \cup {name}
                           \cup (IF st.nodes[x].parent # T THEN {"below root"} ELSE {})]

avl_balance(st, x) ==
    LET d == avl_diff(st.nodes, x)
    IN  IF d > 1
        THEN IF avl_diff(st.nodes, st.nodes[x].right) < 0
             THEN avl_left_rotate(
                      avl_set_right(avl_right_rotate(avl_case_at(st, x, "right-left"),
                                                     st.nodes[x].right), x), x)
             ELSE avl_left_rotate(avl_case_at(st, x, "left"), x)
        ELSE IF d < -1
        THEN IF avl_diff(st.nodes, st.nodes[x].left) > 0
             THEN avl_right_rotate(
                      avl_set_left(avl_left_rotate(avl_case_at(st, x, "left-right"),
                                                   st.nodes[x].left), x), x)
             ELSE avl_right_rotate(avl_case_at(st, x, "right"), x)
        ELSE [st |-> avl_update_max(avl_update_height(st, x), x), ret |-> x]

\* insert's first loop: the last node p on the way down from x
RECURSIVE avl_descend(_, _, _, _)
avl_descend(nodes, x, p, low) ==
    IF x = T THEN p
    ELSE IF low < nodes[x].low
    THEN avl_descend(nodes, nodes[x].left, x, low)
    ELSE avl_descend(nodes, nodes[x].right, x, low)

\* insert that attaches a node of equal low as the left child of p
avl_attach_equal_left(st, n, p, low) ==
    IF low <= st.nodes[p].low
    THEN [st EXCEPT !.nodes[p].left = n, !.nodes[n].parent = p]
    ELSE [st EXCEPT !.nodes[p].right = n, !.nodes[n].parent = p]

\* insert that attaches the new node on the other side of p
avl_attach_swapped(st, n, p, low) ==
    IF low < st.nodes[p].low
    THEN [st EXCEPT !.nodes[p].right = n, !.nodes[n].parent = p]
    ELSE [st EXCEPT !.nodes[p].left = n, !.nodes[n].parent = p]

\* if (low < nodes[p].low) nodes[p].left = n; else nodes[p].right = n;
\* nodes[n].parent = p
avl_attach(st, n, p, low) ==
    IF low < st.nodes[p].low
    THEN [st EXCEPT !.nodes[p].left = n, !.nodes[n].parent = p]
    ELSE [st EXCEPT !.nodes[p].right = n, !.nodes[n].parent = p]

\* insert's second loop from x, then root = x
RECURSIVE avl_walk_up(_, _)
avl_walk_up_from(c) == avl_walk_up(c.st, c.ret)

avl_walk_up(st, x) ==
    IF st.nodes[x].parent = T THEN [st EXCEPT !.root = x]
    ELSE avl_walk_up_from(avl_balance(st, st.nodes[x].parent))

\* insert after init_node(n, low, high)
avl_insert_node(st, n, low) ==
    IF st.root = T THEN [st EXCEPT !.root = n]
    ELSE avl_walk_up(avl_attach(st, n, avl_descend(st.nodes, st.root, T, low), low), n)

avl_insert(st, n, low, high) == avl_insert_node(avl_init_node(st, n, low, high), n, low)

avl_overlap(x0, x1, y0, y1) == x0 <= y1 /\ y0 <= x1

RECURSIVE avl_search_from(_, _, _, _)
avl_search_from(nodes, x, low, high) ==
    IF x # T /\ ~avl_overlap(low, high, nodes[x].low, nodes[x].high)
    THEN IF nodes[x].left # T /\ nodes[nodes[x].left].max >= low
         THEN avl_search_from(nodes, nodes[x].left, low, high)
         ELSE avl_search_from(nodes, nodes[x].right, low, high)
    ELSE x

\* search that goes left only when the left subtree's max is above low
RECURSIVE avl_search_strict_from(_, _, _, _)
avl_search_strict_from(nodes, x, low, high) ==
    IF x # T /\ ~avl_overlap(low, high, nodes[x].low, nodes[x].high)
    THEN IF nodes[x].left # T /\ nodes[nodes[x].left].max > low
         THEN avl_search_strict_from(nodes, nodes[x].left, low, high)
         ELSE avl_search_strict_from(nodes, nodes[x].right, low, high)
    ELSE x

avl_search_strict(nodes, root, low, high) == avl_search_strict_from(nodes, root, low, high)

avl_search(nodes, root, low, high) == avl_search_from(nodes, root, low, high)

\* find_all_overlapping: the handles appended to results, in order
RECURSIVE avl_find_all_overlapping(_, _, _, _)
avl_find_all_overlapping(nodes, x, low, high) ==
    IF x = T THEN <<>>
    ELSE (IF avl_overlap(low, high, nodes[x].low, nodes[x].high) THEN <<x>> ELSE <<>>)
         \o (IF nodes[x].left # T /\ nodes[nodes[x].left].max >= low
             THEN avl_find_all_overlapping(nodes, nodes[x].left, low, high)
             ELSE <<>>)
         \o (IF nodes[x].right # T /\ nodes[nodes[x].right].max >= low
             THEN avl_find_all_overlapping(nodes, nodes[x].right, low, high)
             ELSE <<>>)

\* find_all_overlapping_naive: the linear scan of nodes[0..len-1]
RECURSIVE avl_naive_from(_, _, _, _, _)
avl_naive_from(nodes, len, i, low, high) ==
    IF i >= len THEN <<>>
    ELSE (IF avl_overlap(low, high, nodes[i].low, nodes[i].high) THEN <<i>> ELSE <<>>)
         \o avl_naive_from(nodes, len, i + 1, low, high)

avl_find_all_overlapping_naive(nodes, len, low, high) ==
    avl_naive_from(nodes, len, 0, low, high)

RECURSIVE avl_calc_height(_, _)
avl_calc_height(nodes, x) ==
    IF x = T THEN 0
    ELSE 1 + max(avl_calc_height(nodes, nodes[x].left),
                 avl_calc_height(nodes, nodes[x].right))

RECURSIVE avl_calc_max(_, _)
avl_calc_max(nodes, x) ==
    IF x = T THEN AVL_MIN
    ELSE max(nodes[x].high, max(avl_calc_max(nodes, nodes[x].left),
                                avl_calc_max(nodes, nodes[x].right)))

\* The handles reachable from x
RECURSIVE AvlReach(_, _)
AvlReach(nodes, x) ==
    IF x = T THEN {}
    ELSE {x} \cup AvlReach(nodes, nodes[x].left) \cup AvlReach(nodes, nodes[x].right)

\* ------------------------------------------------------------------ diet.c
DT_TEST_MAX_VAL == 26

DT_N == 10000

DT_MASK_LEN == DT_TEST_MAX_VAL + 1

\* The state an insert threads through its calls: the arena, len, the mask
\* blit writes and, as history, the blit calls made.
dt_blit(st, start, end) ==
    [st EXCEPT !.mask = [i \in DOMAIN st.mask |->
                            IF start <= i /\ i <= end THEN 2 ELSE st.mask[i]],
               !.trace = Append(st.trace, <<start, end>>)]

dt_new_node(st, low, high, left, right) ==
    [st |-> [st EXCEPT !.len = st.len + 1,
                       !.nodes = Store(st.nodes, st.len,
                           [low |-> low, high |-> high,
                            left |-> left, right |-> right])],
     ret |-> st.len]

\* less_than_or_equal and greater_than_or_equal return [st, ret, out], out
\* being *out_low and *out_high
dt_with_out(c, out) == [st |-> c.st, ret |-> c.ret, out |-> out]

\* less_than_or_equal, first branch, after the recursive call <r>
dt_lte_copy(r, x, low) ==
    dt_with_out(dt_new_node(r.st, r.st.nodes[x].low, r.st.nodes[x].high,
                            r.st.nodes[x].left, r.ret),
                min(low, r.out))

dt_blit_if(st, cond, start, end) == IF cond THEN dt_blit(st, start, end) ELSE st

RECURSIVE dt_less_than_or_equal(_, _, _, _, _)
dt_less_than_or_equal(st, x, low, blit_low, blit_high) ==
    IF x = T THEN [st |-> st, ret |-> x, out |-> low]
    ELSE IF low > st.nodes[x].high + 1
    THEN dt_lte_copy(dt_less_than_or_equal(st, st.nodes[x].right, low,
                                           st.nodes[x].high + 1, blit_low),
                     x, low)
    ELSE IF low >= st.nodes[x].low
    THEN [st |-> dt_blit(st, st.nodes[x].high + 1, blit_high),
          ret |-> st.nodes[x].left, out |-> st.nodes[x].low]
    ELSE dt_less_than_or_equal(
             dt_blit_if(dt_blit(st, st.nodes[x].high + 1, blit_high),
                        st.nodes[x].left = T, blit_low, st.nodes[x].low - 1),
             st.nodes[x].left, low, blit_low, st.nodes[x].low - 1)

\* greater_than_or_equal, first branch, after the recursive call <r>
dt_gte_copy(r, x, high) ==
    dt_with_out(dt_new_node(r.st, r.st.nodes[x].low, r.st.nodes[x].high,
                            r.ret, r.st.nodes[x].right),
                max(high, r.out))

RECURSIVE dt_greater_than_or_equal(_, _, _, _, _)
dt_greater_than_or_equal(st, x, high, blit_low, blit_high) ==
    IF x = T THEN [st |-> st, ret |-> x, out |-> high]
    ELSE IF high < st.nodes[x].low - 1
    THEN dt_gte_copy(dt_greater_than_or_equal(st, st.nodes[x].left, high,
                                              blit_high, st.nodes[x].low - 1),
                     x, high)
    ELSE IF high <= st.nodes[x].high
    THEN [st |-> dt_blit(st, blit_low, st.nodes[x].low - 1),
          ret |-> st.nodes[x].right, out |-> st.nodes[x].high]
    ELSE dt_greater_than_or_equal(
             dt_blit_if(dt_blit(st, blit_low, st.nodes[x].low - 1),
                        st.nodes[x].right = T, st.nodes[x].high + 1, blit_high),
             st.nodes[x].right, high, st.nodes[x].high + 1, blit_high)

\* insert_range whose coalescing branch leaves nodes[x].right as it was
dt_coalesce_end_keep(a, b, x, dbl, dbh) ==
    [st |-> [dt_blit_if(b.st, b.st.nodes[x].left = T /\ b.st.nodes[x].right = T,
                        dbl, dbh)
                EXCEPT !.nodes[x] = [low |-> a.out, high |-> b.out,
                                     left |-> a.ret, right |-> b.st.nodes[x].right]],
     ret |-> x]

\* insert_range, coalescing branch, after new_left = <a> and new_right = <b>:
\* the blit of a leaf (nodes[x] is still as it was), then the four
\* assignments to nodes[x]
dt_coalesce_end(a, b, x, dbl, dbh) ==
    [st |-> [dt_blit_if(b.st, b.st.nodes[x].left = T /\ b.st.nodes[x].right = T,
                        dbl, dbh)
                EXCEPT !.nodes[x] = [low |-> a.out, high |-> b.out,
                                     left |-> a.ret, right |-> b.ret]],
     ret |-> x]

dt_coalesce_right(a, x, r1h, dbl, dbh) ==
    dt_coalesce_end(a, dt_greater_than_or_equal(a.st, a.st.nodes[x].right, r1h, dbl, dbh),
                    x, dbl, dbh)

dt_coalesce(st, x, r1l, r1h, dbl, dbh) ==
    dt_coalesce_right(dt_less_than_or_equal(st, st.nodes[x].left, r1l, dbl, dbh),
                      x, r1h, dbl, dbh)

dt_set_right(c, x) == [st |-> [c.st EXCEPT !.nodes[x].right = c.ret], ret |-> x]

\* insert_range that stores the new left subtree as nodes[x].right
dt_set_left_wrong(c, x) == [st |-> [c.st EXCEPT !.nodes[x].right = c.ret], ret |-> x]

dt_set_left(c, x) == [st |-> [c.st EXCEPT !.nodes[x].left = c.ret], ret |-> x]

\* History: insert_range coalesces at x, which holds [low, high] and is a leaf
\* or not
dt_met(st, x) ==
    [st EXCEPT !.met = {<<st.nodes[x].low, st.nodes[x].high,
                          st.nodes[x].left = T /\ st.nodes[x].right = T>>}]

\* insert_range on a node x, once ll, lh, rl, rh and the default blit range
\* are set
RECURSIVE dt_insert_range(_, _, _, _)
dt_insert_ordered(st, x, low, high, ll, lh, rl, rh, dbl, dbh) ==
    IF lh >= rl \/ lh + 1 = rl
    THEN IF low >= st.nodes[x].low /\ high <= st.nodes[x].high
         THEN [st |-> st, ret |-> x]
         ELSE dt_coalesce(dt_met(st, x), x, ll, max(lh, rh), dbl, dbh)
    ELSE IF ll = st.nodes[x].low /\ lh = st.nodes[x].high
         THEN dt_set_right(dt_insert_range(st, st.nodes[x].right, rl, rh), x)
         ELSE dt_set_left(dt_insert_range(st, st.nodes[x].left, ll, lh), x)

dt_insert_range(st, x, low, high) ==
    IF x = T THEN dt_new_node(dt_blit(st, low, high), low, high, T, T)
    ELSE IF st.nodes[x].low < low
    THEN dt_insert_ordered(st, x, low, high,
             st.nodes[x].low, st.nodes[x].high, low, high,
             max(low, st.nodes[x].high + 1), high)
    ELSE dt_insert_ordered(st, x, low, high,
             low, high, st.nodes[x].low, st.nodes[x].high,
             low, min(high, st.nodes[x].low - 1))

dt_insert_test_mask(test_mask, low, high) ==
    [i \in DOMAIN test_mask |->
        IF low <= i /\ i <= high /\ test_mask[i] = 0 THEN 2 ELSE test_mask[i]]

dt_check_masks(mask, test_mask) == \A i \in 0..(DT_MASK_LEN - 1) : mask[i] = test_mask[i]

dt_freeze_masks(m) == [i \in DOMAIN m |-> IF m[i] = 2 THEN 1 ELSE m[i]]

\* The integers stored in the tree under x
RECURSIVE DtStored(_, _)
DtStored(nodes, x) ==
    IF x = T THEN {}
    ELSE (nodes[x].low .. nodes[x].high)
         \cup DtStored(nodes, nodes[x].left) \cup DtStored(nodes, nodes[x].right)

\* The intervals stored in the tree under x, as <<low, high>> pairs
RECURSIVE DtIntervals(_, _)
DtIntervals(nodes, x) ==
    IF x = T THEN {}
    ELSE {<<nodes[x].low, nodes[x].high>>}
         \cup DtIntervals(nodes, nodes[x].left) \cup DtIntervals(nodes, nodes[x].right)

\* History kept beside the program state: the arguments of the last insert,
\* its blit calls, the intervals and integers stored before it, whether it
\* returned, the union of all ranges passed to insert, and the node at which
\* insert_range coalesced (see dt_met).
DtNoHist ==
    [arg |-> <<1, 0>>, trace |-> <<>>, before |-> {}, covered |-> {},
     returned |-> FALSE, inserted |-> {}, met |-> {}]

\* The program after its static initialisers, which is also what clear() makes
DtEmpty ==
    [nodes |-> [i \in {} |-> 0], len |-> 0, root |-> T,
     mask |-> [i \in 0..(DT_MASK_LEN - 1) |-> 0],
     test_mask |-> [i \in 0..(DT_MASK_LEN - 1) |-> 0],
     failed |-> "none", hist |-> DtNoHist]

\* insert after root = <r>: insert_test_mask has made test_mask tm; the
\* assertion of check_masks ends the program, or freeze_masks runs
dt_insert_checks(S, r, tm, low, high) ==
    [nodes |-> r.st.nodes, len |-> r.st.len, root |-> r.ret,
     mask |-> IF dt_check_masks(r.st.mask, tm)
              THEN dt_freeze_masks(r.st.mask) ELSE r.st.mask,
     test_mask |-> IF dt_check_masks(r.st.mask, tm) THEN dt_freeze_masks(tm) ELSE tm,
     failed |-> IF dt_check_masks(r.st.mask, tm) THEN "none" ELSE "check_masks",
     hist |-> [arg |-> <<low, high>>, trace |-> r.st.trace,
               before |-> DtIntervals(S.nodes, S.root),
               covered |-> DtStored(S.nodes, S.root),
               returned |-> dt_check_masks(r.st.mask, tm),
               inserted |-> S.hist.inserted \cup (low..high),
               met |-> r.st.met]]

\* insert(low, high)
dt_insert(S, low, high) ==
    dt_insert_checks(S,
        dt_insert_range([nodes |-> S.nodes, len |-> S.len, mask |-> S.mask,
                         trace |-> <<>>, met |-> {}],
                        S.root, low, high),
        dt_insert_test_mask(S.test_mask, low, high), low, high)

\* ------------------------------------------------------------------ drivers
D3Idle == D3Start("ltr", <<>>, 0, 0)

D3Becomes(S) ==
    /\ d3_nodes' = S.nodes
    /\ d3_len' = S.len
    /\ d3_root' = S.root
    /\ d3_mask' = S.mask
    /\ d3_test_mask' = S.test_mask
    /\ d3_failed' = S.failed
    /\ d3_hist' = S.hist
    /\ UNCHANGED <<prog, d3_order, d3_dom, d3_call, avlvars, dtvars>>

D3Call(start, end) ==
    /\ D3Becomes(d3_insert(D3State, start, end))
    /\ fresh' = IF fresh.on THEN [fresh EXCEPT !.s = d3_insert(fresh.s, start, end)]
                 ELSE fresh

\* The driver makes the next insert of its script
D3SeedInsert ==
    /\ prog = "diet3"
    /\ d3_failed = "none"
    /\ d3_seed # <<>>
    /\ D3Call(Head(d3_seed), Head(d3_seed))
    /\ d3_seed' = Tail(d3_seed)
    /\ UNCHANGED d3_left

\* The driver calls insert(start, end)
D3Insert(start, end) ==
    /\ prog = "diet3"
    /\ d3_failed = "none"
    /\ d3_seed = <<>>
    /\ d3_left > 0
    /\ D3Call(start, end)
    /\ d3_left' = d3_left - 1
    /\ UNCHANGED d3_seed

D3AnyInsert == \E start \in 1..d3_dom : \E end \in start..d3_dom : D3Insert(start, end)

\* A clear() that leaves len as it is
d3_clear_keep_len(S) ==
    [S EXCEPT !.root = T,
              !.mask = [i \in 0..(D3_MASK_LEN - 1) |-> 0],
              !.test_mask = [i \in 0..(D3_MASK_LEN - 1) |-> 0],
              !.hist = D3NoHist]

\* clear() of diet3.c: root = T, len = 0 and both masks zeroed; the arena
\* keeps its records. No insert has been made since, so there is no history.
d3_clear(S) ==
    [S EXCEPT !.root = T, !.len = 0,
              !.mask = [i \in 0..(D3_MASK_LEN - 1) |-> 0],
              !.test_mask = [i \in 0..(D3_MASK_LEN - 1) |-> 0],
              !.hist = D3NoHist]

\* The driver calls clear() between two of its inserts
D3Clear ==
    /\ prog = "diet3"
    /\ d3_failed = "none"
    /\ fresh.on
    /\ fresh.clears < MaxClears
    /\ D3Becomes(d3_clear(D3State))
    /\ fresh' = [on |-> TRUE, clears |-> fresh.clears + 1, s |-> D3Empty(d3_order)]
    /\ UNCHANGED <<d3_seed, d3_left>>

DtState ==
    [nodes |-> dt_nodes, len |-> dt_len, root |-> dt_root, mask |-> dt_mask,
     test_mask |-> dt_test_mask, failed |-> dt_failed, hist |-> dt_hist]

DtStart(S, seed, dom, left) ==
    /\ dt_nodes = S.nodes
    /\ dt_len = S.len
    /\ dt_root = S.root
    /\ dt_mask = S.mask
    /\ dt_test_mask = S.test_mask
    /\ dt_failed = S.failed
    /\ dt_hist = S.hist
    /\ dt_seed = seed
    /\ dt_dom = dom
    /\ dt_left = left

\* As D3Init
DtInit ==
    \/ DtStart(DtEmpty, <<>>, DietMaxVal, DietMaxInserts)
    \/ \E seed \in DietSeeds : DtStart(DtEmpty, seed, 2 * DietSeedPoints - 1, 1)

DtIdle == DtStart(DtEmpty, <<>>, 0, 0)

DtBecomes(S) ==
    /\ dt_nodes' = S.nodes
    /\ dt_len' = S.len
    /\ dt_root' = S.root
    /\ dt_mask' = S.mask
    /\ dt_test_mask' = S.test_mask
    /\ dt_failed' = S.failed
    /\ dt_hist' = S.hist
    /\ UNCHANGED <<prog, dt_dom, d3vars, avlvars>>

DtCall(low, high) ==
    /\ DtBecomes(dt_insert(DtState, low, high))
    /\ fresh' = IF fresh.on THEN [fresh EXCEPT !.s = dt_insert(fresh.s, low, high)]
                 ELSE fresh

DtSeedInsert ==
    /\ prog = "diet"
    /\ dt_failed = "none"
    /\ dt_seed # <<>>
    /\ DtCall(Head(dt_seed), Head(dt_seed))
    /\ dt_seed' = Tail(dt_seed)
    /\ UNCHANGED dt_left

DtInsert(low, high) ==
    /\ prog = "diet"
    /\ dt_failed = "none"
    /\ dt_seed = <<>>
    /\ dt_left > 0
    /\ DtCall(low, high)
    /\ dt_left' = dt_left - 1
    /\ UNCHANGED dt_seed

DtAnyInsert == \E low \in 1..dt_dom : \E high \in low..dt_dom : DtInsert(low, high)

\* clear() of diet.c: as in diet3.c
dt_clear(S) ==
    [S EXCEPT !.root = T, !.len = 0,
              !.mask = [i \in 0..(DT_MASK_LEN - 1) |-> 0],
              !.test_mask = [i \in 0..(DT_MASK_LEN - 1) |-> 0],
              !.hist = DtNoHist]

DtClear ==
    /\ prog = "diet"
    /\ dt_failed = "none"
    /\ fresh.on
    /\ fresh.clears < MaxClears
    /\ DtBecomes(dt_clear(DtState))
    /\ fresh' = [on |-> TRUE, clears |-> fresh.clears + 1, s |-> DtEmpty]
    /\ UNCHANGED <<dt_seed, dt_left>>

\* Seed scripts of avl_tree_ref.c: AvlSeedLen intervals whose lows are
\* 1..AvlSeedLen in the order i |-> a*i + b (mod AvlSeedLen) and whose
\* lengths cycle through 0, 1, 2
AvlSeeds ==
    { [i \in 1..AvlSeedLen |->
          <<((a * (i - 1) + b) % AvlSeedLen) + 1,
            ((a * (i - 1) + b) % AvlSeedLen) + 1 + ((a + i) % 3)>>] :
        a \in 1..(AvlSeedLen - 1), b \in 0..(AvlSeedLen - 1) }

AvlStart(seed, dom, left) ==
    /\ avl_nodes = [i \in {} |-> 0]
    /\ avl_len = 0
    /\ avl_root = T
    /\ avl_seed = seed
    /\ avl_dom = dom
    /\ avl_left = left
    /\ avl_cases = {}
    /\ avl_inserted = <<>>
    /\ avl_failed = "none"

AvlInit ==
    \/ AvlStart(<<>>, AvlMaxVal, AvlMaxInserts)
    \/ \E seed \in AvlSeeds : AvlStart(seed, AvlSeedLen + 1, 1)

AvlIdle == AvlStart(<<>>, 0, 0)

\* insert(low, high): n = len++, init_node(n, low, high), the rest on n.
\* insert does not compare len with N. With len = N, init_node and the
\* statements after it write nodes[N], past the end of the array, which C
\* leaves undefined. What a build does with it: the record lands in the memory
\* after the array and reads back ("landed"); the same, but that memory is
\* another global, len in the build observed, which takes the value of the
\* field written over it ("clobbered"); or the program is stopped at the
\* write ("crashed").
avl_insert_outcomes(len) ==
    IF len < AVL_N THEN {"in bounds"} ELSE {"landed", "clobbered", "crashed"}

AvlBecomes(st, outcome, low) ==
    /\ avl_nodes' = IF outcome = "crashed" THEN avl_nodes ELSE st.nodes
    /\ avl_root' = IF outcome = "crashed" THEN avl_root ELSE st.root
    /\ avl_len' = IF outcome = "clobbered" THEN low ELSE avl_len + 1
    /\ avl_cases' = IF outcome = "crashed" THEN avl_cases ELSE st.cases
    /\ avl_failed' = IF outcome = "crashed" THEN "crashed" ELSE "none"
    /\ UNCHANGED <<prog, avl_dom, d3vars, dtvars>>

\* The followed program after an insert that left <st>
AvlAfter(st, len) ==
    [nodes |-> st.nodes, len |-> len + 1, root |-> st.root, cases |-> st.cases]

AvlCall(low, high) ==
    /\ \E outcome \in avl_insert_outcomes(avl_len) :
           AvlBecomes(avl_insert([nodes |-> avl_nodes, root |-> avl_root, cases |-> {}],
                                 avl_len, low, high),
                      outcome, low)
    /\ avl_inserted' = Append(avl_inserted, <<low, high>>)
    /\ fresh' = IF fresh.on
                 THEN [fresh EXCEPT !.s =
                          AvlAfter(avl_insert([nodes |-> fresh.s.nodes,
                                               root |-> fresh.s.root, cases |-> {}],
                                              fresh.s.len, low, high),
                                   fresh.s.len)]
                 ELSE fresh

AvlSeedInsert ==
    /\ prog = "avl"
    /\ avl_failed = "none"
    /\ avl_seed # <<>>
    /\ AvlCall(Head(avl_seed)[1], Head(avl_seed)[2])
    /\ avl_seed' = Tail(avl_seed)
    /\ UNCHANGED avl_left

AvlInsert(low, high) ==
    /\ prog = "avl"
    /\ avl_failed = "none"
    /\ avl_seed = <<>>
    /\ avl_left > 0
    /\ AvlCall(low, high)
    /\ avl_left' = avl_left - 1
    /\ UNCHANGED avl_seed

AvlAnyInsert == \E low \in 1..avl_dom : \E high \in low..avl_dom : AvlInsert(low, high)

\* avl_tree_ref.c has no clear(); test() resets with root = T; len = 0.
\* No insert has been made since, so there is no history.
avl_clear(S) == [S EXCEPT !.root = T, !.len = 0, !.cases = {}]

AvlEmpty == [nodes |-> [i \in {} |-> 0], len |-> 0, root |-> T, cases |-> {}]

AvlState == [nodes |-> avl_nodes, len |-> avl_len, root |-> avl_root, cases |-> avl_cases]

AvlIs(S) ==
    /\ avl_nodes' = S.nodes
    /\ avl_len' = S.len
    /\ avl_root' = S.root
    /\ avl_cases' = S.cases

AvlClear ==
    /\ prog = "avl"
    /\ avl_failed = "none"
    /\ fresh.on
    /\ fresh.clears < MaxClears
    /\ AvlIs(avl_clear(AvlState))
    /\ avl_inserted' = <<>>
    /\ fresh' = [on |-> TRUE, clears |-> fresh.clears + 1, s |-> AvlEmpty]
    /\ UNCHANGED <<prog, avl_seed, avl_dom, avl_left, avl_failed, d3vars, dtvars>>

\* ---------------------------------------------------------- specifications
\* A run in which no twin is followed
Unfollowed == fresh = [on |-> FALSE]

InitD3 == prog = "diet3" /\ D3Init /\ AvlIdle /\ DtIdle /\ Unfollowed

NextD3 == D3SeedInsert \/ D3AnyInsert

SpecD3 == InitD3 /\ [][NextD3]_vars

InitAvl == prog = "avl" /\ AvlInit /\ D3Idle /\ DtIdle /\ Unfollowed

NextAvl == AvlSeedInsert \/ AvlAnyInsert

SpecAvl == InitAvl /\ [][NextAvl]_vars

\* N + 1 calls insert(1, 1) of avl_tree_ref.c
AvlCapSeed == [i \in 1..(AVL_N + 1) |-> <<1, 1>>]

InitAvlCap == prog = "avl" /\ AvlStart(AvlCapSeed, 0, 0) /\ D3Idle /\ DtIdle /\ Unfollowed

NextAvlCap == AvlSeedInsert

SpecAvlCap == InitAvlCap /\ [][NextAvlCap]_vars

\* Scripts of diet3.c that fill the arena: N + 1 inserts of the points 1, 3, ..
\* 2k - 1 in turn, for k = 1, 2, 3. Every insert allocates, a covered one too.
D3CapSeeds ==
    { [i \in 1..(D3_N + 1) |-> 2 * ((i - 1) % k) + 1] : k \in 1..3 }

InitD3Cap ==
    /\ prog = "diet3"
    /\ \E order \in {"ltr", "rtl"} : \E seed \in D3CapSeeds : D3Start(order, seed, 0, 0)
    /\ AvlIdle /\ DtIdle /\ Unfollowed

NextD3Cap == D3SeedInsert

SpecD3Cap == InitD3Cap /\ [][NextD3Cap]_vars

\* Callers that pass any two coordinates to insert, low > high included
D3AnyCall == \E start \in 1..d3_dom : \E end \in 1..d3_dom : D3Insert(start, end)

DtAnyCall == \E low \in 1..dt_dom : \E high \in 1..dt_dom : DtInsert(low, high)

AvlAnyCall == \E low \in 1..avl_dom : \E high \in 1..avl_dom : AvlInsert(low, high)

InitDomain ==
    \/ /\ prog = "diet3"
       /\ \E order \in {"ltr", "rtl"} : D3Start(order, <<>>, DietMaxVal, DietMaxInserts)
       /\ AvlIdle /\ DtIdle /\ Unfollowed
    \/ /\ prog = "diet"
       /\ DtStart(DtEmpty, <<>>, DietMaxVal, DietMaxInserts)
       /\ AvlIdle /\ D3Idle /\ Unfollowed
    \/ /\ prog = "avl"
       /\ AvlStart(<<>>, AvlMaxVal, AvlMaxInserts)
       /\ D3Idle /\ DtIdle /\ Unfollowed

NextDomain == D3AnyCall \/ DtAnyCall \/ AvlAnyCall

SpecDomain == InitDomain /\ [][NextDomain]_vars

\* Shapes of trees: <<>> is the empty tree, <<a, b>> a node over the shapes a
\* and b
RECURSIVE D3ShapeNodes(_)
D3ShapeNodes(shape) ==
    IF shape = <<>> THEN 0 ELSE 1 + D3ShapeNodes(shape[1]) + D3ShapeNodes(shape[2])

\* The nodes over two shapes of A, or one of A and one of B, JoinMaxNodes
\* nodes at most
D3ShapesOver(A, B) ==
    {p \in (A \X A) \cup (A \X B) \cup (B \X A) :
        D3ShapeNodes(p[1]) + D3ShapeNodes(p[2]) < JoinMaxNodes}

\* The least number of nodes of an AVL-balanced tree of height h
RECURSIVE D3MinNodes(_)
D3MinNodes(h) == IF h <= 0 THEN 0 ELSE 1 + D3MinNodes(h - 1) + D3MinNodes(h - 2)

\* The shapes of the AVL-balanced trees of height h
RECURSIVE D3Shapes(_)
D3Shapes(h) ==
    IF h = 0 THEN {<<>>}
    ELSE IF h = 1 THEN {<< <<>>, <<>> >>}
    ELSE D3ShapesOver(D3Shapes(h - 1), D3Shapes(h - 2))

D3AllShapes ==
    UNION {D3Shapes(h) : h \in {g \in 0..JoinMaxNodes : D3MinNodes(g) <= JoinMaxNodes}}

\* Each shape with its number of nodes
D3SizedShapes == {<<D3ShapeNodes(shape), shape>> : shape \in D3AllShapes}

\* The interval of the k-th node in inorder: one or two integers, isolated
\* from its neighbours
D3KeyStart(k) == 3 * k + 1

D3KeyEnd(k) == 3 * k + 1 + (k % 2)

\* A tree of the given shape built by create over the intervals k, k + 1, ..:
\* [st, ret, k], k being the first interval not used
D3Keyed(c, k) == [st |-> c.st, ret |-> c.ret, k |-> k]

D3BuildNode(a, b) ==
    D3Keyed(d3_create(b.st, D3KeyStart(a.k), D3KeyEnd(a.k), a.ret, b.ret), b.k)

RECURSIVE D3Build(_, _, _)
D3BuildRight(a, right) == D3BuildNode(a, D3Build(a.st, right, a.k + 1))

D3Build(st, shape, k) ==
    IF shape = <<>> THEN [st |-> st, ret |-> T, k |-> k]
    ELSE D3BuildRight(D3Build(st, shape[1], k), shape[2])

\* The arena holds l, then r; the interval of the call lies between theirs
D3JoinStartsWith(order, a, b) ==
    /\ D3Is([D3Empty(order) EXCEPT !.nodes = b.st.nodes, !.len = b.st.len])
    /\ d3_seed = <<>>
    /\ d3_dom = 0
    /\ d3_left = 0
    /\ d3_call = [l |-> a.ret, r |-> b.ret, start |-> D3KeyStart(a.k),
                  end |-> D3KeyEnd(a.k), done |-> FALSE, ret |-> T]

D3JoinStartsRight(order, a, right) ==
    D3JoinStartsWith(order, a, D3Build(a.st, right, a.k + 1))

D3JoinStart(order, left, right) ==
    D3JoinStartsRight(order,
        D3Build([nodes |-> [i \in {} |-> 0], len |-> 0,
                 mask |-> [i \in 0..(D3_MASK_LEN - 1) |-> 0],
                 trace |-> <<>>, fail |-> "none", deep |-> FALSE],
                left, 0),
        right)

InitJoin ==
    /\ prog = "diet3"
    /\ \E shapes \in {D3SizedShapes} :
         \E order \in {"ltr", "rtl"} :
             \E left \in shapes :
                 \E right \in {g \in shapes : left[1] + g[1] <= JoinMaxNodes} :
                     D3JoinStart(order, left[2], right[2])
    /\ AvlIdle /\ DtIdle /\ Unfollowed

\* The call join(start, end, l, r) returns, or err() ends the program
D3JoinReturns(j) ==
    /\ d3_nodes' = j.st.nodes
    /\ d3_len' = j.st.len
    /\ d3_failed' = j.st.fail
    /\ d3_call' = [d3_call EXCEPT !.done = TRUE, !.ret = j.ret]
    /\ UNCHANGED <<prog, d3_root, d3_mask, d3_test_mask, d3_order, d3_seed, d3_dom,
                   d3_left, d3_hist, avlvars, dtvars, fresh>>

D3Join ==
    /\ prog = "diet3"
    /\ d3_failed = "none"
    /\ ~d3_call.done
    /\ d3_call.start <= d3_call.end
    /\ D3JoinReturns(d3_join([nodes |-> d3_nodes, len |-> d3_len, mask |-> d3_mask,
                               trace |-> <<>>, fail |-> "none", deep |-> FALSE],
                              d3_order, d3_call.start, d3_call.end,
                              d3_call.l, d3_call.r))

NextJoin == D3Join

SpecJoin == InitJoin /\ [][NextJoin]_vars

InitDiets ==
    \/ prog = "diet3" /\ D3Init /\ AvlIdle /\ DtIdle /\ Unfollowed
    \/ prog = "diet" /\ DtInit /\ AvlIdle /\ D3Idle /\ Unfollowed

NextDiets == D3SeedInsert \/ D3AnyInsert \/ DtSeedInsert \/ DtAnyInsert

SpecDiets == InitDiets /\ [][NextDiets]_vars

\* Each program with its resets, next to the same program started afresh at
\* every reset
Followed(S) == fresh = [on |-> TRUE, clears |-> 0, s |-> S]

InitClear ==
    \/ prog = "diet3" /\ D3Init /\ AvlIdle /\ DtIdle /\ Followed(D3Empty(d3_order))
    \/ prog = "diet" /\ DtInit /\ AvlIdle /\ D3Idle /\ Followed(DtEmpty)
    \/ prog = "avl" /\ AvlInit /\ D3Idle /\ DtIdle /\ Followed(AvlEmpty)

NextClear ==
    \/ D3SeedInsert \/ D3AnyInsert \/ D3Clear
    \/ DtSeedInsert \/ DtAnyInsert \/ DtClear
    \/ AvlSeedInsert \/ AvlAnyInsert \/ AvlClear

SpecClear == InitClear /\ [][NextClear]_vars

\* ------------------------------------------------------------------ claims
\* What the last insert of diet3.c was given, found stored, and blitted
D3Range == d3_hist.arg[1]..d3_hist.arg[2]

D3Before == UNION {p[1]..p[2] : p \in d3_hist.before}

D3Blitted == UNION {d3_hist.trace[k][1]..d3_hist.trace[k][2] : k \in 1..Len(d3_hist.trace)}

D3Now == D3Intervals(d3_nodes, d3_root)

\* C1: no integer covered by a blit call of an insert of diet3.c was stored
\* immediately before that insert.
C1_BlitOnlyOnAbsent == D3Blitted \cap D3Before = {}

\* C2: every integer of the inserted range [lo, hi] that was not stored
\* immediately before an insert of diet3.c is covered by a blit call of that
\* insert.
C2_AbsentAreBlitted == (D3Range \ D3Before) \subseteq D3Blitted

\* An insert that returned, over a tree of several intervals, whose range held
\* both stored and absent integers and which made several blit calls
C2_Witness ==
    /\ prog = "diet3"
    /\ d3_hist.returned
    /\ d3_failed = "none"
    /\ Cardinality(d3_hist.before) >= 2
    /\ D3Range \ D3Before # {}
    /\ D3Range \cap D3Before # {}
    /\ Len(d3_hist.trace) >= 2

\* C3: the integers stored in the tree reachable from root of diet3.c are
\* exactly the integers of the ranges passed to insert.
C3_CoverageIdentity == D3Stored(d3_nodes, d3_root) = d3_hist.inserted

\* An insert that discarded at least two stored intervals and left others
C3_Witness ==
    /\ prog = "diet3"
    /\ d3_hist.returned
    /\ Cardinality(D3Now) >= 2
    /\ Cardinality(d3_hist.before) >= Cardinality(D3Now) + 2

\* C4: no two distinct nodes reachable from root of diet3.c hold overlapping
\* or adjacent intervals.
C4_Isolation ==
    \A x \in D3Reach(d3_nodes, d3_root) : \A y \in D3Reach(d3_nodes, d3_root) :
        x # y => ~d3_overlapping_or_adjacent(d3_nodes, x, y)

\* An insert that bridged at least three isolated intervals into one node
C4_Witness ==
    /\ prog = "diet3"
    /\ d3_hist.returned
    /\ Cardinality(d3_hist.before) >= 3
    /\ Cardinality(D3Now) = 1

\* Queries low <= high of avl_tree_ref.c, from below every stored coordinate
\* to above every one
AvlQueries == {q \in (0..(avl_dom + 3)) \X (0..(avl_dom + 3)) : q[1] <= q[2]}

AvlRange(seq) == {seq[k] : k \in 1..Len(seq)}

AvlSameHandles(found, scan) ==
    /\ Len(found) = Len(scan)
    /\ AvlRange(found) = AvlRange(scan)
    /\ Cardinality(AvlRange(found)) = Len(found)

\* C5: for every query low <= high, find_all_overlapping returns the handles
\* the linear scan of nodes[0..len-1] returns, each exactly once.
C5_FindAllIsLinearScan ==
    \A q \in AvlQueries :
        AvlSameHandles(avl_find_all_overlapping(avl_nodes, avl_root, q[1], q[2]),
                       avl_find_all_overlapping_naive(avl_nodes, avl_len, q[1], q[2]))

\* A tree of at least five nodes, rotated by the last insert, and a query that
\* overlaps some node and for which the pruning skips a non-empty subtree
C5_Witness ==
    /\ prog = "avl"
    /\ avl_len >= 5
    /\ avl_cases # {}
    /\ \E q \in AvlQueries : \E x \in AvlReach(avl_nodes, avl_root) :
          /\ avl_find_all_overlapping(avl_nodes, avl_root, q[1], q[2]) # <<>>
          /\ avl_nodes[x].left # T
          /\ avl_nodes[avl_nodes[x].left].max < q[1]

AvlSearchRight(found, scan, low, high) ==
    IF scan # <<>>
    THEN /\ found # T
         /\ avl_overlap(low, high, avl_nodes[found].low, avl_nodes[found].high)
    ELSE found = T

\* C6: for every query low <= high, search returns a handle whose interval
\* overlaps the query if some stored interval overlaps it, and T if none does.
C6_SearchFindsOverlap ==
    \A q \in AvlQueries :
        AvlSearchRight(avl_search(avl_nodes, avl_root, q[1], q[2]),
                       avl_find_all_overlapping_naive(avl_nodes, avl_len, q[1], q[2]),
                       q[1], q[2])

\* A rotated tree with two equal low keys, and a query that search answers
\* with a node below the root
C6_Witness ==
    /\ prog = "avl"
    /\ avl_cases # {}
    /\ \E x \in AvlReach(avl_nodes, avl_root) : \E y \in AvlReach(avl_nodes, avl_root) :
          x # y /\ avl_nodes[x].low = avl_nodes[y].low
    /\ \E q \in AvlQueries :
          avl_search(avl_nodes, avl_root, q[1], q[2]) \notin {T, avl_root}

\* C7: every node reachable from root has |height(right) - height(left)| <= 1.
C7_AvlBalanced ==
    \A x \in AvlReach(avl_nodes, avl_root) :
        avl_diff(avl_nodes, x) \in {-1, 0, 1}

\* The last insert applied the right-left double rotation in a tree of at
\* least five nodes
C7_Witness ==
    /\ prog = "avl"
    /\ avl_len >= 5
    /\ "right-left" \in avl_cases

\* C8: every node x reachable from root has x.max equal to the largest high
\* in the subtree of x.
C8_MaxCorrect ==
    \A x \in AvlReach(avl_nodes, avl_root) :
        avl_nodes[x].max = avl_calc_max(avl_nodes, x)

\* The last insert applied the left-right double rotation, and the root's max
\* is the high of another node
C8_Witness ==
    /\ prog = "avl"
    /\ avl_len >= 5
    /\ "left-right" \in avl_cases
    /\ avl_nodes[avl_root].max # avl_nodes[avl_root].high

\* C9: every node reachable from root of diet3.c has left and right subtrees
\* whose true heights differ by at most 1.
C9_BalancedByTrueHeight ==
    \A x \in D3Reach(d3_nodes, d3_root) :
        (d3_calc_height(d3_nodes, d3_nodes[x].left)
            - d3_calc_height(d3_nodes, d3_nodes[x].right)) \in {-1, 0, 1}

\* An insert that discarded a stored interval and whose join met two
\* non-empty trees with heights more than bal_const apart
C9_Witness ==
    /\ prog = "diet3"
    /\ d3_hist.returned
    /\ d3_hist.deep
    /\ Cardinality(d3_hist.before) > Cardinality(D3Now)

\* What the last insert of diet.c was given and blitted
DtRange == dt_hist.arg[1]..dt_hist.arg[2]

DtBlitted == UNION {dt_hist.trace[k][1]..dt_hist.trace[k][2] : k \in 1..Len(dt_hist.trace)}

\* C10: in diet3.c and in diet.c, an insert of a range whose integers were all
\* stored before it makes no blit call that covers an integer and leaves the
\* set of stored intervals as it was.
C10_Idempotent ==
    /\ (prog = "diet3" /\ D3Range # {} /\ D3Range \subseteq D3Before)
          => (D3Blitted = {} /\ D3Now = d3_hist.before)
    /\ (prog = "diet" /\ DtRange # {} /\ DtRange \subseteq dt_hist.covered)
          => (DtBlitted = {} /\ DtIntervals(dt_nodes, dt_root) = dt_hist.before)

\* diet.c has inserted a stored range that is not its root's, into a tree of
\* at least three intervals
C10_Witness ==
    /\ prog = "diet"
    /\ dt_hist.returned
    /\ DtRange # {}
    /\ DtRange \subseteq dt_hist.covered
    /\ Cardinality(dt_hist.before) >= 3
    /\ ~(dt_nodes[dt_root].low <= dt_hist.arg[1] /\ dt_hist.arg[2] <= dt_nodes[dt_root].high)

\* C11: the integers blitted during an insert of diet.c are exactly the
\* integers of [lo, hi] that were not stored before it.
C11_BlitFidelity == DtBlitted = DtRange \ dt_hist.covered

\* The handles under x in inorder
RECURSIVE AvlInorder(_, _)
AvlInorder(nodes, x) ==
    IF x = T THEN <<>>
    ELSE AvlInorder(nodes, nodes[x].left) \o <<x>> \o AvlInorder(nodes, nodes[x].right)

AvlLowsAscend(seq) ==
    \A k \in 1..(Len(seq) - 1) : avl_nodes[seq[k]].low <= avl_nodes[seq[k + 1]].low

\* C12: for every reachable node x of avl_tree_ref.c, the nodes of its left
\* subtree have low <= x.low and those of its right subtree low >= x.low, and
\* the lows in inorder are non-decreasing.
C12_BstOrder ==
    /\ \A x \in AvlReach(avl_nodes, avl_root) :
          /\ \A y \in AvlReach(avl_nodes, avl_nodes[x].left) :
                avl_nodes[y].low <= avl_nodes[x].low
          /\ \A y \in AvlReach(avl_nodes, avl_nodes[x].right) :
                avl_nodes[y].low >= avl_nodes[x].low
    /\ AvlLowsAscend(AvlInorder(avl_nodes, avl_root))

\* The last insert rotated a tree of at least five nodes with three distinct
\* lows, and all nodes are in the inorder sequence
C12_Witness ==
    /\ prog = "avl"
    /\ avl_len >= 5
    /\ avl_cases # {}
    /\ Len(AvlInorder(avl_nodes, avl_root)) = avl_len
    /\ Cardinality({avl_nodes[x].low : x \in AvlReach(avl_nodes, avl_root)}) >= 3

\* C13 as stated: every node in the left subtree of a reachable node x of
\* avl_tree_ref.c has low strictly smaller than x.low.
C13_EqualLowOnlyRight ==
    \A x \in AvlReach(avl_nodes, avl_root) :
        \A y \in AvlReach(avl_nodes, avl_nodes[x].left) :
            avl_nodes[y].low < avl_nodes[x].low

AvlStable(seq) ==
    \A k \in 1..(Len(seq) - 1) :
        \/ avl_nodes[seq[k]].low < avl_nodes[seq[k + 1]].low
        \/ avl_nodes[seq[k]].low = avl_nodes[seq[k + 1]].low /\ seq[k] < seq[k + 1]

\* C13, amended: insert descends right on an equal low, so in inorder the
\* nodes of equal low follow each other in the order of their insertion
\* (ascending handles); a node of equal low in a left subtree was inserted
\* before its ancestor.
C13_EqualLowInInsertionOrder ==
    /\ AvlStable(AvlInorder(avl_nodes, avl_root))
    /\ \A x \in AvlReach(avl_nodes, avl_root) :
          \A y \in AvlReach(avl_nodes, avl_nodes[x].left) :
              avl_nodes[y].low = avl_nodes[x].low => y < x

\* A left rotation has put a node of equal low into a left subtree
C13_Witness ==
    /\ prog = "avl"
    /\ "left" \in avl_cases
    /\ \E x \in AvlReach(avl_nodes, avl_root) :
          \E y \in AvlReach(avl_nodes, avl_nodes[x].left) :
              avl_nodes[y].low = avl_nodes[x].low

\* C14: no record of avl_tree_ref.c or of diet.c is written at an index >= N,
\* and len never exceeds N.
C14_CapacityFailsFast ==
    /\ avl_len <= AVL_N
    /\ \A i \in DOMAIN avl_nodes : i < AVL_N
    /\ dt_len <= DT_N
    /\ \A i \in DOMAIN dt_nodes : i < DT_N

\* C15: the root of avl_tree_ref.c has parent T, every child of a reachable
\* node x has parent x, and every reachable node but the root is the left or
\* the right child of its parent.
C15_ParentConsistent ==
    /\ avl_root # T => avl_nodes[avl_root].parent = T
    /\ \A x \in AvlReach(avl_nodes, avl_root) :
          /\ avl_nodes[x].left # T => avl_nodes[avl_nodes[x].left].parent = x
          /\ avl_nodes[x].right # T => avl_nodes[avl_nodes[x].right].parent = x
          /\ x # avl_root =>
                /\ avl_nodes[x].parent # T
                /\ x \in {avl_nodes[avl_nodes[x].parent].left,
                          avl_nodes[avl_nodes[x].parent].right}

\* The last insert applied a right rotation and the tree has a node with a
\* parent and two children
C15_Witness ==
    /\ prog = "avl"
    /\ "right" \in avl_cases
    /\ \E x \in AvlReach(avl_nodes, avl_root) :
          /\ avl_nodes[x].parent # T
          /\ avl_nodes[x].left # T
          /\ avl_nodes[x].right # T

\* The handles under x of diet.c in inorder
RECURSIVE DtInorder(_, _)
DtInorder(nodes, x) ==
    IF x = T THEN <<>>
    ELSE DtInorder(nodes, nodes[x].left) \o <<x>> \o DtInorder(nodes, nodes[x].right)

DtIsolatedRuns(seq) ==
    /\ \A k \in 1..Len(seq) : dt_nodes[seq[k]].low <= dt_nodes[seq[k]].high
    /\ \A k \in 1..(Len(seq) - 1) : dt_nodes[seq[k]].high + 1 < dt_nodes[seq[k + 1]].low

\* C16: the intervals of diet.c reachable from root are, in inorder, the
\* maximal runs of consecutive integers of the union of the inserted ranges.
C16_CanonicalForm ==
    /\ DtIsolatedRuns(DtInorder(dt_nodes, dt_root))
    /\ DtStored(dt_nodes, dt_root) = dt_hist.inserted

\* An insert of diet.c that returned, merged at least three stored intervals
\* into one and left others beside it
C16_Witness ==
    /\ prog = "diet"
    /\ dt_hist.returned
    /\ Cardinality(DtIntervals(dt_nodes, dt_root)) >= 2
    /\ Cardinality(dt_hist.before) >= Cardinality(DtIntervals(dt_nodes, dt_root)) + 2

\* C17 as stated: every insert(lo, hi) with lo <= hi of diet3.c and of diet.c
\* makes at least one blit call.
C17_BlitAtLeastOnce ==
    /\ (prog = "diet3" /\ D3Range # {}) => Len(d3_hist.trace) >= 1
    /\ (prog = "diet" /\ DtRange # {}) => Len(dt_hist.trace) >= 1

\* C17, amended: an insert of a range whose integers were all stored makes no
\* blit call, in diet3.c and in diet.c; an insert of diet3.c whose range holds
\* an integer that was not stored makes at least one.
C17_BlitCallsByCoverage ==
    /\ (prog = "diet3" /\ D3Range # {} /\ D3Range \subseteq D3Before)
          => Len(d3_hist.trace) = 0
    /\ (prog = "diet3" /\ D3Range \ D3Before # {}) => Len(d3_hist.trace) >= 1
    /\ (prog = "diet" /\ DtRange # {} /\ DtRange \subseteq dt_hist.covered)
          => Len(dt_hist.trace) = 0

\* diet3.c has inserted a stored range into a tree of at least three
\* intervals, below the root, and made no blit call
C17_Witness ==
    /\ prog = "diet3"
    /\ d3_hist.returned
    /\ D3Range # {}
    /\ D3Range \subseteq D3Before
    /\ Cardinality(d3_hist.before) >= 3
    /\ ~(d3_nodes[d3_root].start <= d3_hist.arg[1] /\ d3_hist.arg[2] <= d3_nodes[d3_root].end)
    /\ d3_hist.trace = <<>>

\* What a program can read of its state: len, root, the masks, and the records
\* with a handle below len (an insert writes a record before it reads it)
D3Live(S) ==
    [len |-> S.len, root |-> S.root, nodes |-> [i \in 0..(S.len - 1) |-> S.nodes[i]],
     mask |-> S.mask, test_mask |-> S.test_mask, failed |-> S.failed, hist |-> S.hist]

DtLive(S) ==
    [len |-> S.len, root |-> S.root, nodes |-> [i \in 0..(S.len - 1) |-> S.nodes[i]],
     mask |-> S.mask, test_mask |-> S.test_mask, failed |-> S.failed, hist |-> S.hist]

AvlLive(S) ==
    [len |-> S.len, root |-> S.root, nodes |-> [i \in 0..(S.len - 1) |-> S.nodes[i]],
     cases |-> S.cases]

\* C18: after a reset (clear() in diet3.c and diet.c, root = T; len = 0 in
\* avl_tree_ref.c) the program behaves as one started afresh: the next record
\* gets handle 0, and after every later insert the tree shape, the handles,
\* the stored intervals, the masks and the blit calls are those of the same
\* inserts made from the initial state, whatever records the arena still
\* holds past len.
C18_ClearIsFresh ==
    fresh.on =>
        /\ prog = "diet3" => D3Live(D3State) = D3Live(fresh.s)
        /\ prog = "diet" => DtLive(DtState) = DtLive(fresh.s)
        /\ prog = "avl" => AvlLive(AvlState) = AvlLive(fresh.s)

\* diet3.c was reset and has since built a tree of two nodes or more, with a
\* join, while the arena holds records of the tree before the reset past len
C18_Witness ==
    /\ prog = "diet3"
    /\ fresh.on
    /\ fresh.clears > 0
    /\ d3_len >= 3
    /\ d3_nodes[d3_root].height >= 2
    /\ d3_hist.before # {}
    /\ \E i \in DOMAIN d3_nodes : i >= d3_len /\ d3_nodes[i] # d3_nodes[0]

\* C19: in diet3.c, after every insert, every node reachable from root
\* records as its height 1 + the larger of the true heights of its two
\* subtrees, the empty subtree having height 0.
C19_HeightRecorded ==
    \A x \in D3Reach(d3_nodes, d3_root) :
        d3_nodes[x].height =
            1 + max(d3_calc_height(d3_nodes, d3_nodes[x].left),
                    d3_calc_height(d3_nodes, d3_nodes[x].right))

\* A tree of height three or more under root, left by an insert whose join met
\* heights more than bal_const apart, with a node whose subtrees differ in height
C19_Witness ==
    /\ prog = "diet3"
    /\ d3_hist.returned
    /\ d3_hist.deep
    /\ d3_nodes[d3_root].height >= 3
    /\ \E x \in D3Reach(d3_nodes, d3_root) :
          d3_calc_height(d3_nodes, d3_nodes[x].left)
              # d3_calc_height(d3_nodes, d3_nodes[x].right)

\* C20: in avl_tree_ref.c, after every insert, every node x reachable from
\* root has height 1 + max(height(x.left), height(x.right)), empty being 0 and
\* a leaf 1, and that is the true height of its subtree; the ancestors of a
\* rotated subtree are among these nodes.
C20_AvlHeightCorrect ==
    \A x \in AvlReach(avl_nodes, avl_root) :
        /\ avl_nodes[x].height =
              1 + max(avl_height(avl_nodes, avl_nodes[x].left),
                      avl_height(avl_nodes, avl_nodes[x].right))
        /\ avl_nodes[x].height = avl_calc_height(avl_nodes, x)

\* The last insert rotated a subtree that has ancestors, in a tree of six nodes
\* or more
C20_Witness ==
    /\ prog = "avl"
    /\ "below root" \in avl_cases
    /\ avl_len >= 6
    /\ avl_nodes[avl_root].height >= 3

\* The handles under x of diet3.c in inorder
RECURSIVE D3Inorder(_, _)
D3Inorder(nodes, x) ==
    IF x = T THEN <<>>
    ELSE D3Inorder(nodes, nodes[x].left) \o <<x>> \o D3Inorder(nodes, nodes[x].right)

D3StartsAscend(seq) ==
    \A k \in 1..(Len(seq) - 1) : d3_nodes[seq[k]].start <= d3_nodes[seq[k + 1]].start

\* C21: after every insert of diet3.c, for every reachable node x the nodes of
\* its left subtree have start <= x.start and those of its right subtree
\* start >= x.start, and the starts in inorder are monotonic; joins and
\* balance rebuilds included.
C21_D3BstOrder ==
    /\ \A x \in D3Reach(d3_nodes, d3_root) :
          /\ \A y \in D3Reach(d3_nodes, d3_nodes[x].left) :
                d3_nodes[y].start <= d3_nodes[x].start
          /\ \A y \in D3Reach(d3_nodes, d3_nodes[x].right) :
                d3_nodes[y].start >= d3_nodes[x].start
    /\ D3StartsAscend(D3Inorder(d3_nodes, d3_root))

\* An insert whose join met heights more than bal_const apart left a tree of
\* five nodes or more in which both subtrees of the root have a node
C21_Witness ==
    /\ prog = "diet3"
    /\ d3_hist.returned
    /\ d3_hist.deep
    /\ Len(D3Inorder(d3_nodes, d3_root)) >= 5
    /\ d3_nodes[d3_root].left # T
    /\ d3_nodes[d3_root].right # T

\* C22: in diet3.c, new_node called with len = N fails its assertion before it
\* writes a field of nodes[] and before it increments len: in every reachable
\* state len <= N and no record has an index >= N, and the program that met
\* the full arena has ended with len = N.
C22_D3CapacityAsserted ==
    /\ d3_len <= D3_N
    /\ \A i \in DOMAIN d3_nodes : i < D3_N
    /\ d3_failed = "assert n < N" => d3_len = D3_N

\* new_node was called on the full arena, in an insert that had allocated
\* before that call or not
C22_Witness ==
    /\ prog = "diet3"
    /\ d3_failed = "assert n < N"
    /\ d3_len = D3_N
    /\ D3_N - 1 \in DOMAIN d3_nodes

\* The records under the root of diet.c
RECURSIVE DtReach(_, _)
DtReach(nodes, x) ==
    IF x = T THEN {}
    ELSE {x} \cup DtReach(nodes, nodes[x].left) \cup DtReach(nodes, nodes[x].right)

\* C23: whatever coordinates insert is given, low > high included, no node
\* under the root of avl_tree_ref.c, diet3.c or diet.c has a low that exceeds
\* its high (the input is rejected, or it is normalized).
C23_NoInvertedNode ==
    /\ \A x \in AvlReach(avl_nodes, avl_root) : avl_nodes[x].low <= avl_nodes[x].high
    /\ \A x \in D3Reach(d3_nodes, d3_root) : d3_nodes[x].start <= d3_nodes[x].end
    /\ \A x \in DtReach(dt_nodes, dt_root) : dt_nodes[x].low <= dt_nodes[x].high

\* C24: every call blit(a, b) with a <= b that an insert(lo, hi) of diet3.c
\* makes has lo <= a and b <= hi.
C24_BlitCallsInRange ==
    \A k \in 1..Len(d3_hist.trace) :
        d3_hist.trace[k][1] <= d3_hist.trace[k][2] =>
            /\ d3_hist.arg[1] <= d3_hist.trace[k][1]
            /\ d3_hist.trace[k][2] <= d3_hist.arg[2]

\* An insert over a tree of several intervals made calls of blit through
\* find_del_left and find_del_right, with non-empty ranges on both sides of a
\* stored interval
C24_Witness ==
    /\ prog = "diet3"
    /\ Cardinality(d3_hist.before) >= 3
    /\ \E p \in d3_hist.before :
          /\ \E k \in 1..Len(d3_hist.trace) :
                /\ d3_hist.trace[k][1] <= d3_hist.trace[k][2]
                /\ d3_hist.trace[k][2] < p[1]
          /\ \E k \in 1..Len(d3_hist.trace) :
                /\ d3_hist.trace[k][1] <= d3_hist.trace[k][2]
                /\ d3_hist.trace[k][1] > p[2]

\* C25: when an insert(lo, hi) of diet.c coalesces at a leaf [s, e] with
\* lo < s and hi > e, its blit calls cover the left extension [lo, s - 1] and
\* the right extension [e + 1, hi].
C25_LeafStraddleBlitsBothSides ==
    \A m \in dt_hist.met :
        (m[3] /\ dt_hist.arg[1] < m[1] /\ dt_hist.arg[2] > m[2]) =>
            ((dt_hist.arg[1]..(m[1] - 1)) \cup ((m[2] + 1)..dt_hist.arg[2]))
                \subseteq DtBlitted

\* The intervals under x of diet3.c in inorder
D3InorderIntervals(x) ==
    [k \in 1..Len(D3Inorder(d3_nodes, x)) |->
        <<d3_nodes[D3Inorder(d3_nodes, x)[k]].start, d3_nodes[D3Inorder(d3_nodes, x)[k]].end>>]

\* The tree under x is AVL-balanced and records the true height at every node
D3BalancedTree(x) ==
    \A y \in D3Reach(d3_nodes, x) :
        /\ (d3_calc_height(d3_nodes, d3_nodes[y].left)
              - d3_calc_height(d3_nodes, d3_nodes[y].right)) \in {-1, 0, 1}
        /\ d3_nodes[y].height = d3_calc_height(d3_nodes, y)

\* C26: for two AVL-balanced, height-correct trees l and r of any heights,
\* either possibly empty, and an interval [s, e] between the intervals of l
\* and those of r, join(s, e, l, r) returns a tree whose intervals in inorder
\* are those of l, then [s, e], then those of r, and which is AVL-balanced
\* with the true height recorded at every node.
C26_JoinCorrect ==
    d3_call.done =>
        /\ d3_failed = "none"
        /\ D3InorderIntervals(d3_call.ret) =
              D3InorderIntervals(d3_call.l) \o <<<<d3_call.start, d3_call.end>>>>
                  \o D3InorderIntervals(d3_call.r)
        /\ D3BalancedTree(d3_call.ret)

\* join has returned on two non-empty trees whose heights differ by three or
\* more
C26_Witness ==
    /\ d3_call.done
    /\ d3_call.l # T
    /\ d3_call.r # T
    /\ d3_nodes[d3_call.r].height >= d3_nodes[d3_call.l].height + 3
    /\ D3BalancedTree(d3_call.l)
    /\ D3BalancedTree(d3_call.r)

\* C27: an insert of diet3.c writes no record that was allocated before the
\* call (it writes at indices >= len at call entry only), so the handle that
\* was root before the insert denotes the same tree after it.
C27_Persistent ==
    [][/\ \A i \in 0..(d3_len - 1) : d3_nodes'[i] = d3_nodes[i]
       /\ D3Inorder(d3_nodes', d3_root) = D3Inorder(d3_nodes, d3_root)
       /\ D3Intervals(d3_nodes', d3_root) = D3Intervals(d3_nodes, d3_root)]_vars

\* An insert over a tree of three intervals or more has returned a new root
\* and left records of the tree before it that the new root does not reach
C27_Witness ==
    /\ prog = "diet3"
    /\ d3_hist.returned
    /\ Cardinality(d3_hist.before) >= 3
    /\ d3_root = d3_len - 1
    /\ Cardinality(D3Reach(d3_nodes, d3_root)) < d3_len
    /\ D3Intervals(d3_nodes, d3_root) # d3_hist.before

\* C28: after k inserts into avl_tree_ref.c, duplicates and overlapping
\* intervals included, the nodes reachable from root are the handles 0..k-1,
\* each reached once, and handle i holds the low and the high of the i-th
\* interval inserted: rebalancing loses, duplicates and alters none.
C28_ContentPreserved ==
    /\ avl_len = Len(avl_inserted)
    /\ Len(AvlInorder(avl_nodes, avl_root)) = avl_len
    /\ AvlRange(AvlInorder(avl_nodes, avl_root)) = 0..(avl_len - 1)
    /\ \A i \in 0..(avl_len - 1) :
          /\ avl_nodes[i].low = avl_inserted[i + 1][1]
          /\ avl_nodes[i].high = avl_inserted[i + 1][2]

\* Seven inserts, among them two of the same interval and two that overlap,
\* the last of which made a double rotation below the root
C28_Witness ==
    /\ prog = "avl"
    /\ avl_len = 7
    /\ avl_cases \cap {"right-left", "left-right"} # {}
    /\ "below root" \in avl_cases
    /\ \E i \in 0..6 : \E j \in 0..6 :
          i # j /\ avl_inserted[i + 1] = avl_inserted[j + 1]
    /\ \E i \in 0..6 : \E j \in 0..6 :
          /\ avl_inserted[i + 1] # avl_inserted[j + 1]
          /\ avl_overlap(avl_nodes[i].low, avl_nodes[i].high,
                         avl_nodes[j].low, avl_nodes[j].high)

====
